---- MODULE Spec2Model ----
(***************************************************************************)
(* Anime_analysis: the Collector (scrape.py), the Normalizer (clean.py)    *)
(* and the Reporter (analyze_visualize.py) as three state machines.        *)
(*                                                                         *)
(* Text is a sequence of one-character strings, so that int(), float(),    *)
(* str.replace and str.isdigit are computed on the characters.  A Score is *)
(* kept in hundredths (8.50 is 850), a Completion_Rate in hundredths of a  *)
(* percent (100.00 is 10000).                                              *)
(***************************************************************************)
EXTENDS Integers, Sequences, FiniteSets, TLC

VARIABLES
    pc,          \* Collector: position in scrape.main
    offsetIdx,   \* Collector: index into OFFSETS of the listing page at hand
    entries,     \* Collector: rows of the listing page being parsed
    entryIdx,    \* Collector: loop index in parse_top_anime
    anime_list,  \* Collector: parse_top_anime's local list
    all_anime,   \* Collector: main's accumulated list
    csv,         \* Collector: rows of top_anime_detailed.csv, <<>> if none
    csvWritten,  \* Collector: whether the CSV file was written
    raised,      \* Collector: exception propagated out of main, "none" if none
    log,         \* Collector: outbound requests and sleeps, in order
    seen,        \* Collector: rows the entry loop has been through, with outcome
    fetched,     \* Collector: rows of the listing pages fetched so far, in order
    df,          \* Normalizer: the raw DataFrame given to clean_anime_data
    cleaned,     \* Normalizer: the DataFrame it returns
    indexer,     \* Normalizer: the row order chosen by sort_values
    cpc,         \* Normalizer: position
    rdf,         \* Reporter: the cleaned DataFrame read by main
    rpc,         \* Reporter: the chart call main is at (1..4), 5 returned, 0 raised
    files,       \* Reporter: chart files written
    ran,         \* Reporter: chart operations that were called
    rraised      \* Reporter: chart operation whose exception left main, "none"

vars == <<pc, offsetIdx, entries, entryIdx, anime_list, all_anime, csv,
          csvWritten, raised, log, seen, fetched, df, cleaned, indexer, cpc, rdf, rpc,
          files, ran, rraised>>

collectorVars == <<pc, offsetIdx, entries, entryIdx, anime_list,
                   all_anime, csv, csvWritten, raised, log, seen,
                   fetched>>
cleanVars == <<df, cleaned, indexer, cpc>>
reportVars == <<rdf, rpc, files, ran, rraised>>

(***************************************************************************)
(* Bounds                                                                  *)
(***************************************************************************)
\* total number of entry rows over the three listing pages
MaxEntries == 2
\* number of rows of a raw DataFrame
MaxRows == 2
\* number of rows of a cleaned DataFrame read by the Reporter
MaxReportRows == 2

(***************************************************************************)
(* Text helpers                                                            *)
(***************************************************************************)
Digits == {"0", "1", "2", "3", "4", "5", "6", "7", "8", "9"}

DigitVal(c) ==
    CASE c = "0" -> 0 [] c = "1" -> 1 [] c = "2" -> 2 [] c = "3" -> 3
      [] c = "4" -> 4 [] c = "5" -> 5 [] c = "6" -> 6 [] c = "7" -> 7
      [] c = "8" -> 8 [] c = "9" -> 9

IsDigitChar(c) == c \in Digits
NotComma(c) == c # ","

\* s.replace(",", "")
StripCommas(s) == SelectSeq(s, NotComma)

\* "".join(filter(str.isdigit, s))
DigitsOf(s) == SelectSeq(s, IsDigitChar)

\* str.isdigit(): non-empty and all digits
IsDigitStr(s) == Len(s) > 0 /\ \A i \in 1..Len(s) : s[i] \in Digits

RECURSIVE DecValue(_)
DecValue(s) ==
    IF Len(s) = 0 THEN 0
    ELSE DecValue(SubSeq(s, 1, Len(s) - 1)) * 10 + DigitVal(s[Len(s)])

\* int(s): the value, or -1 for ValueError (int("") and non-digits raise)
ParseInt(s) == IF IsDigitStr(s) THEN DecValue(s) ELSE -1

DotCount(s) == Cardinality({i \in 1..Len(s) : s[i] = "."})
DotPos(s) == IF DotCount(s) = 0 THEN Len(s) + 1
             ELSE CHOOSE i \in 1..Len(s) :
                      s[i] = "." /\ \A j \in 1..(i - 1) : s[j] # "."

\* float(s) in hundredths, or -1 for ValueError.  Fractions of at most two
\* digits are exact in hundredths; the inputs below have no longer ones.
ParseFloat(s) ==
    LET ip == SubSeq(s, 1, DotPos(s) - 1)
        fp == SubSeq(s, DotPos(s) + 1, Len(s))
        ok == /\ \A i \in 1..Len(s) : s[i] \in Digits \cup {"."}
              /\ DotCount(s) <= 1
              /\ Len(ip) + Len(fp) > 0
              /\ Len(fp) <= 2
    IN  IF ~ok THEN -1
        ELSE DecValue(ip) * 100
             + (IF Len(fp) = 0 THEN 0
                ELSE IF Len(fp) = 1 THEN DecValue(fp) * 10
                ELSE DecValue(fp))

(***************************************************************************)
(* Collector: inputs                                                       *)
(***************************************************************************)
\* the three listing pages of main
OFFSETS == <<0, 50, 100>>

\* One <tr class="ranking-list"> of a listing page:
\*   rankText  text of td.rank
\*   titleTag  "" when h3.anime_ranking_h3 or its <a> is missing, else its text
\*   scoreTd   "absent": no td.score; "nospan": td.score without a span;
\*             "span": td.score with a span
\*   scoreText text of that span
\*   byUsers   the ([\d,]+) group of 'by ([\d,]+) users' in the td's text,
\*             <<>> when the text has no such fragment
Row(r, t, td, sc, by) ==
    [rankText |-> r, titleTag |-> t, scoreTd |-> td, scoreText |-> sc,
     byUsers |-> by]

EntryRows ==
    { Row(<<"1">>, "Sousou no Frieren", "span", <<"9", ".", "2", "9">>, <<>>),
      Row(<<"2">>, "Fullmetal Alchemist", "span", <<"9", ".", "1">>,
          <<"1", ",", "2", "3">>),
      Row(<<"5", "1">>, "Gintama", "absent", <<>>, <<>>),
      Row(<<"3">>, "Steins;Gate", "span", <<"N", "/", "A">>, <<>>),
      Row(<<"4">>, "Monster", "nospan", <<>>, <<>>),
      Row(<<"-">>, "Mushishi", "span", <<"8", ".", "7">>, <<>>),
      Row(<<"6">>, "", "span", <<"8", ".", "6">>, <<>>),
      Row(<<"7">>, "Vinland Saga", "span", <<"8", ".", "5">>, <<",">>) }

InfoLabels == {"Type", "Episodes", "Duration", "Source", "Aired", "Season"}
StatusKeys == {"Watching", "Completed", "On_Hold", "Dropped", "Plan_to_Watch"}

\* A detail page as fetch_page and the extraction see it:
\*   fetch      "ok", or "error" when session.get / raise_for_status raises
\*   fields     per label, the text of the label's next sibling; "" when the
\*              label or its sibling is missing, "<tag>" when the sibling is
\*              an element (whose .strip is None, so calling it raises)
\*   genres     texts of span[itemprop='genre']
\*   stats      per status, the ([\d,]+) group matched in the page text,
\*              <<>> when nothing matches
\*   seasonNode the first text node containing "Season", <<>> when none
Page(f, ty, ep, ge, w, c, d, sn) ==
    [fetch |-> f,
     fields |-> [l \in InfoLabels |->
                    CASE l = "Type" -> ty
                      [] l = "Episodes" -> ep
                      [] l = "Season" -> IF ty = "TV" THEN "Fall 2023" ELSE ""
                      [] OTHER -> IF ep = "" THEN "" ELSE "Manga"],
     genres |-> ge,
     stats |-> [k \in StatusKeys |->
                    CASE k = "Watching" -> w
                      [] k = "Completed" -> c
                      [] k = "Dropped" -> d
                      [] OTHER -> <<>>],
     seasonNode |-> sn]

DetailPages ==
    { Page("error", "", "", <<>>, <<>>, <<>>, <<>>, <<>>),
      Page("ok", "TV", "28", <<"Adventure", "Drama">>,
           <<"1", ",", "2">>, <<"3">>, <<"0">>, <<"S", "e", "a", "s", "o", "n", " ", "2">>),
      Page("ok", "Movie", "", <<>>, <<>>, <<>>, <<>>,
           <<"S", "e", "a", "s", "o", "n", " ", "3">>),
      Page("ok", "<tag>", "12", <<"Action">>, <<"5">>, <<"6">>, <<>>, <<>>),
      Page("ok", "TV", "64", <<"Action">>, <<"7">>, <<",">>, <<>>,
           <<"S", "e", "a", "s", "o", "n", ":">>) }

\* stands in seen for "no detail page was requested"
NoPage == Page("error", "", "", <<>>, <<>>, <<>>, <<>>, <<>>)

(***************************************************************************)
(* Collector: parse_anime_details                                          *)
(***************************************************************************)
TextFields == {"Type", "Episodes", "Duration", "Source", "Aired", "Season"}
DetailFields == TextFields \cup {"Genres"} \cup StatusKeys \cup {"Season_Number"}
SummaryFields == {"Rank", "Title", "Score", "Rating_Users"}
RecordFields == SummaryFields \cup DetailFields

\* ", ".join(genres)
RECURSIVE JoinGenres(_)
JoinGenres(g) ==
    IF Len(g) = 0 THEN <<>>
    ELSE IF Len(g) = 1 THEN <<g[1]>>
    ELSE <<g[1], ", ">> \o JoinGenres(Tail(g))

\* a bug in the except branch: the viewer-status defaults left out
DefaultDetailsNoStats ==
    [f \in DetailFields \ StatusKeys |->
        IF f \in TextFields THEN "Unknown"
        ELSE IF f = "Genres" THEN <<"Unknown">>
        ELSE 1]

\* the except branch of parse_anime_details
DefaultDetails ==
    [f \in DetailFields |->
        IF f \in TextFields THEN "Unknown"
        ELSE IF f = "Genres" THEN <<"Unknown">>
        ELSE IF f = "Season_Number" THEN 1
        ELSE 0]

\* info[field] for one label
InfoField(page, l) ==
    IF page.fields[l] # "" THEN page.fields[l] ELSE "Unknown"

\* stats[key] for one status
StatCount(page, k) ==
    IF page.stats[k] # <<>> THEN ParseInt(StripCommas(page.stats[k])) ELSE 0

\* info.get("Type", "").startswith("TV")
StartsWithTV(t) == t \in {"TV", "TV Special"}

SeasonNumber(page) ==
    IF /\ StartsWithTV(InfoField(page, "Type"))
       /\ page.seasonNode # <<>>
       /\ IsDigitStr(DigitsOf(page.seasonNode))
    THEN ParseInt(DigitsOf(page.seasonNode))
    ELSE 1

\* an exception inside the try block: fetch_page raising, .strip() on an
\* element sibling, int("") on a match holding only commas
DetailRaises(page) ==
    \/ page.fetch = "error"
    \/ \E l \in InfoLabels : page.fields[l] = "<tag>"
    \/ \E k \in StatusKeys :
           page.stats[k] # <<>> /\ ParseInt(StripCommas(page.stats[k])) = -1

\* a bug on the success path: info.update(stats) left out
DetailInfoNoStats(page) ==
    [f \in DetailFields \ StatusKeys |->
        IF f \in TextFields THEN InfoField(page, f)
        ELSE IF f = "Genres"
             THEN (IF page.genres # <<>> THEN JoinGenres(page.genres)
                   ELSE <<"Unknown">>)
        ELSE SeasonNumber(page)]

\* the dictionary built on the success path
DetailInfo(page) ==
    [f \in DetailFields |->
        IF f \in TextFields THEN InfoField(page, f)
        ELSE IF f = "Genres"
             THEN (IF page.genres # <<>> THEN JoinGenres(page.genres)
                   ELSE <<"Unknown">>)
        ELSE IF f = "Season_Number" THEN SeasonNumber(page)
        ELSE StatCount(page, f)]

parse_anime_details(page) ==
    IF DetailRaises(page) THEN DefaultDetails ELSE DetailInfo(page)

(***************************************************************************)
(* Collector: parse_top_anime, one entry                                   *)
(***************************************************************************)
\* score = float(span text) if score_td else 0.0
EntryScore(row) ==
    IF row.scoreTd # "absent" THEN ParseFloat(row.scoreText) ELSE 0

\* rating_users = int(m.group(1).replace(",", "")) if m else 0
EntryRatingUsers(row) ==
    IF row.byUsers # <<>> THEN ParseInt(StripCommas(row.byUsers)) ELSE 0

\* an exception before parse_anime_details is called
SummaryRaises(row) ==
    \/ ParseInt(row.rankText) = -1
    \/ row.titleTag = ""
    \/ row.scoreTd = "nospan"
    \/ (row.scoreTd = "span" /\ ParseFloat(row.scoreText) = -1)
    \/ row.scoreTd = "absent"      \* score_td.get_text on None
    \/ (row.byUsers # <<>> /\ ParseInt(StripCommas(row.byUsers)) = -1)

EntrySummary(row) ==
    [f \in SummaryFields |->
        CASE f = "Rank" -> ParseInt(row.rankText)
          [] f = "Title" -> row.titleTag
          [] f = "Score" -> EntryScore(row)
          [] f = "Rating_Users" -> EntryRatingUsers(row)]

\* {"Rank": ..., "Title": ..., "Score": ..., "Rating_Users": ..., **details}
EntryRecord(row, page) == parse_anime_details(page) @@ EntrySummary(row)

Request(kind, ok) == [kind |-> kind, ok |-> ok]
Sleep(kind) == [kind |-> kind, ok |-> TRUE]

\* a bug: the sleep after the append left out
EntryEventsNoSleep(page) == <<Request("detail", page.fetch = "ok")>>

\* outbound traffic of one appended entry: the detail request, then the sleep
EntryEvents(page) ==
    <<Request("detail", page.fetch = "ok"), Sleep("sleep_entry")>>

\* outbound traffic at the end of one listing page
PageEvents == <<Sleep("sleep_page")>>

\* a bug: all_anime = parse_top_anime(session, soup)
ExtendReplaces(all, lst) == lst

\* all_anime.extend(parse_top_anime(session, soup))
Extend(all, lst) == all \o lst

\* the entry loop's except branch: log and continue
AfterSkip(lst) == lst

(***************************************************************************)
(* Collector: scrape.main as a state machine                               *)
(***************************************************************************)
SeqsUpTo(S, n) == UNION {[1..k -> S] : k \in 0..n}

Seen(row, page, outcome) == [row |-> row, page |-> page, outcome |-> outcome]

NormalizerIdle ==
    /\ df = <<>> /\ cleaned = <<>> /\ indexer = <<>> /\ cpc = "idle"
ReporterIdle ==
    /\ rdf = <<>> /\ rpc = -1 /\ files = {} /\ ran = {} /\ rraised = "none"

Init ==
    /\ pc = "fetch_listing"
    /\ offsetIdx = 1
    /\ entries = <<>>
    /\ entryIdx = 1
    /\ anime_list = <<>>
    /\ all_anime = <<>>
    /\ csv = <<>>
    /\ csvWritten = FALSE
    /\ raised = "none"
    /\ log = <<>>
    /\ seen = <<>>
    /\ fetched = <<>>
    /\ NormalizerIdle
    /\ ReporterIdle

\* main: soup = fetch_page(session, url) returns; parse_top_anime starts
FetchListingOk ==
    /\ pc = "fetch_listing"
    /\ \E rows \in SeqsUpTo(EntryRows, MaxEntries - Len(seen)) :
           /\ entries' = rows
           /\ fetched' = fetched \o rows
    /\ entryIdx' = 1
    /\ anime_list' = <<>>
    /\ log' = Append(log, Request("listing", TRUE))
    /\ pc' = "entries"
    /\ UNCHANGED <<offsetIdx, all_anime, csv, csvWritten, raised, seen>>
    /\ UNCHANGED <<cleanVars, reportVars>>

\* a bug that swallows the listing failure and parses an empty page
ListingFailureSwallowed == [pc |-> "entries", raised |-> "none"]

\* fetch_page raising in main: nothing between the call and main's except
\* catches it, and main's except logs and re-raises
ListingFailure ==
    [pc |-> "raised", raised |-> "AnimeScraperError: Failed to fetch page"]

\* main: fetch_page raises AnimeScraperError
FetchListingFails ==
    /\ pc = "fetch_listing"
    /\ log' = Append(log, Request("listing", FALSE))
    /\ raised' = ListingFailure.raised
    /\ pc' = ListingFailure.pc
    /\ UNCHANGED <<offsetIdx, entries, entryIdx, anime_list, all_anime, csv,
                   csvWritten, seen, fetched>>
    /\ UNCHANGED <<cleanVars, reportVars>>

\* parse_top_anime: one iteration that raises before the append
EntrySkipped ==
    /\ pc = "entries"
    /\ entryIdx <= Len(entries)
    /\ SummaryRaises(entries[entryIdx])
    /\ anime_list' = AfterSkip(anime_list)
    /\ seen' = Append(seen, Seen(entries[entryIdx], NoPage, "skipped"))
    /\ entryIdx' = entryIdx + 1
    /\ UNCHANGED <<pc, offsetIdx, entries, all_anime, csv, csvWritten, raised,
                   log, fetched>>
    /\ UNCHANGED <<cleanVars, reportVars>>

\* parse_top_anime: one iteration that reaches the append and the sleep
EntryAppended ==
    /\ pc = "entries"
    /\ entryIdx <= Len(entries)
    /\ ~SummaryRaises(entries[entryIdx])
    /\ \E page \in DetailPages :
           /\ anime_list' =
                  Append(anime_list, EntryRecord(entries[entryIdx], page))
           /\ log' = log \o EntryEvents(page)
           /\ seen' = Append(seen,
                  Seen(entries[entryIdx], page,
                       IF DetailRaises(page) THEN "defaulted" ELSE "detailed"))
    /\ entryIdx' = entryIdx + 1
    /\ UNCHANGED <<pc, offsetIdx, entries, all_anime, csv, csvWritten, raised,
                   fetched>>
    /\ UNCHANGED <<cleanVars, reportVars>>

\* parse_top_anime returns; main extends all_anime, sleeps, next offset
PageDone ==
    /\ pc = "entries"
    /\ entryIdx > Len(entries)
    /\ all_anime' = Extend(all_anime, anime_list)
    /\ log' = log \o PageEvents
    /\ anime_list' = <<>>
    /\ entries' = <<>>
    /\ entryIdx' = 1
    /\ offsetIdx' = offsetIdx + 1
    /\ pc' = IF offsetIdx = Len(OFFSETS) THEN "save" ELSE "fetch_listing"
    /\ UNCHANGED <<csv, csvWritten, raised, seen, fetched>>
    /\ UNCHANGED <<cleanVars, reportVars>>

\* a bug: the empty check left out
SaveNeverRefuses(lst) == FALSE

\* save_data: "if not anime_list: raise"
SaveRefuses(lst) == lst = <<>>

\* save_data with records: the CSV is written
SaveDataOk ==
    /\ pc = "save"
    /\ ~SaveRefuses(all_anime)
    /\ csv' = all_anime
    /\ csvWritten' = TRUE
    /\ pc' = "done"
    /\ UNCHANGED <<offsetIdx, entries, entryIdx, anime_list, all_anime, raised,
                   log, seen, fetched>>
    /\ UNCHANGED <<cleanVars, reportVars>>

\* save_data without records: AnimeScraperError, re-raised by main
SaveDataEmpty ==
    /\ pc = "save"
    /\ SaveRefuses(all_anime)
    /\ raised' = "AnimeScraperError: No data to save"
    /\ pc' = "raised"
    /\ UNCHANGED <<offsetIdx, entries, entryIdx, anime_list, all_anime, csv,
                   csvWritten, log, seen, fetched>>
    /\ UNCHANGED <<cleanVars, reportVars>>

Next ==
    \/ FetchListingOk
    \/ FetchListingFails
    \/ EntrySkipped
    \/ EntryAppended
    \/ PageDone
    \/ SaveDataOk
    \/ SaveDataEmpty

Spec == Init /\ [][Next]_vars

(***************************************************************************)
(* Collector: claims                                                       *)
(***************************************************************************)
Records == all_anime \o anime_list
Terminal == pc \in {"done", "raised"}
NotSkippedRow(e) == ~SummaryRaises(e.row)
IsRequest(ev) == ev.kind \in {"listing", "detail"}
ListingsOk == Cardinality({i \in 1..Len(log) :
                              log[i].kind = "listing" /\ log[i].ok})
FetchFailed == \E i \in 1..Len(log) : log[i].kind = "listing" /\ ~log[i].ok
DetailFailures == {i \in 1..Len(seen) : seen[i].outcome = "defaulted"}

\* the documented defaults, written out field by field
HasDefaultDetails(r) ==
    /\ r["Type"] = "Unknown" /\ r["Episodes"] = "Unknown"
    /\ r["Duration"] = "Unknown" /\ r["Source"] = "Unknown"
    /\ r["Aired"] = "Unknown" /\ r["Season"] = "Unknown"
    /\ r["Genres"] = <<"Unknown">>
    /\ r["Watching"] = 0 /\ r["Completed"] = 0 /\ r["On_Hold"] = 0
    /\ r["Dropped"] = 0 /\ r["Plan_to_Watch"] = 0
    /\ r["Season_Number"] = 1

\* C1: when every entry row parses, a crawl that runs to the end has one
\* record per row, in row order; a row whose detail fetch or extraction
\* raised has its own Rank, Title, Score, Rating_Users and every detail field
\* at its default, and the rows and pages after it were still processed.
C1_DetailFailureDefaults ==
    (pc \in {"save", "done"} /\ \A i \in 1..Len(seen) : NotSkippedRow(seen[i]))
    => /\ Len(all_anime) = Len(fetched)
       /\ Len(seen) = Len(fetched)
       /\ ListingsOk = Len(OFFSETS)
       /\ \A i \in DetailFailures :
            /\ DOMAIN all_anime[i] = RecordFields
            /\ all_anime[i]["Rank"] = ParseInt(fetched[i].rankText)
            /\ all_anime[i]["Title"] = fetched[i].titleTag
            /\ all_anime[i]["Score"] = ParseFloat(fetched[i].scoreText)
            /\ all_anime[i]["Rating_Users"] =
                   (IF fetched[i].byUsers = <<>> THEN 0
                    ELSE ParseInt(StripCommas(fetched[i].byUsers)))
            /\ HasDefaultDetails(all_anime[i])

\* a finished crawl of two rows: the first row's detail fetch failed, the
\* second row was still processed with its details
C1_Witness ==
    /\ pc = "done"
    /\ Len(seen) = 2
    /\ seen[1].outcome = "defaulted" /\ seen[1].page.fetch = "error"
    /\ seen[2].outcome = "detailed"
    /\ Len(csv) = 2

RECURSIVE RecordsOf(_)
RecordsOf(sn) ==
    IF Len(sn) = 0 THEN <<>>
    ELSE IF SummaryRaises(sn[1].row) THEN RecordsOf(Tail(sn))
    ELSE <<EntryRecord(sn[1].row, sn[1].page)>> \o RecordsOf(Tail(sn))

\* C2: the accumulated records are exactly the rows that did not raise, in
\* the order met; the loop goes through every row of every fetched page, a
\* row that raises or not.
C2_RecordsAreKeptRowsInOrder ==
    /\ Records = RecordsOf(seen)
    /\ [i \in 1..Len(seen) |-> seen[i].row] = SubSeq(fetched, 1, Len(seen))
    /\ pc # "entries" => Len(seen) = Len(fetched)
    /\ pc # "entries" => anime_list = <<>>

\* a row that raised on the first page, then a kept row on the second page
C2_Witness ==
    /\ Len(seen) = 2 /\ Len(all_anime) = 1 /\ Len(anime_list) = 0
    /\ offsetIdx = 3
    /\ SummaryRaises(seen[1].row) /\ ~SummaryRaises(seen[2].row)

\* C3: a failed listing fetch is the last outbound event of the run, and the
\* run ends with the fetch failure propagated out of main.
C3_ListingFailureAborts ==
    \A i \in 1..Len(log) :
        (log[i].kind = "listing" /\ ~log[i].ok)
        => /\ i = Len(log)
           /\ pc = "raised"
           /\ raised = "AnimeScraperError: Failed to fetch page"

\* the second listing page fails after a first page that had a detail failure
C3_Witness ==
    /\ FetchFailed /\ offsetIdx = 2
    /\ \E i \in 1..Len(seen) : seen[i].outcome = "defaulted"

\* C4: the CSV is written only after three fetched listing pages and with at
\* least one record; a run ending with no record raises and writes nothing,
\* and a run aborted by a listing failure writes nothing.
C4_CsvOnlyOnCompleteNonEmptyRun ==
    /\ csvWritten => /\ ListingsOk = Len(OFFSETS)
                     /\ ~FetchFailed
                     /\ Len(csv) >= 1
                     /\ csv = all_anime
    /\ (Terminal /\ ~FetchFailed /\ all_anime = <<>>)
           => (raised = "AnimeScraperError: No data to save" /\ ~csvWritten)
    /\ FetchFailed => ~csvWritten

\* a run aborted by a later listing page with a record already accumulated
C4_Witness ==
    /\ pc = "raised" /\ FetchFailed /\ Len(all_anime) >= 1 /\ ~csvWritten

\* C5 as stated: a row that lacks only its score yields a record with Score 0,
\* and a row that lacks only the "by N users" fragment a record with
\* Rating_Users 0.
C5_AbsentScoreYieldsRecord ==
    \A i \in 1..Len(seen) :
        LET row == seen[i].row IN
        /\ (ParseInt(row.rankText) # -1 /\ row.titleTag # ""
            /\ row.scoreTd = "absent")
           => \E j \in 1..Len(Records) :
                  /\ Records[j]["Rank"] = ParseInt(row.rankText)
                  /\ Records[j]["Score"] = 0
        /\ (ParseInt(row.rankText) # -1 /\ row.titleTag # ""
            /\ row.scoreTd = "span" /\ ParseFloat(row.scoreText) # -1
            /\ row.byUsers = <<>>)
           => \E j \in 1..Len(Records) :
                  /\ Records[j]["Rank"] = ParseInt(row.rankText)
                  /\ Records[j]["Rating_Users"] = 0

\* C6: every appended (and every written) record has exactly the 17 fields,
\* each holding a value of its kind, the five counts non-negative integers.
WellFormed(r) ==
    /\ DOMAIN r = RecordFields
    /\ Cardinality(DOMAIN r) = 17
    /\ r["Rank"] \in Nat
    /\ r["Title"] \in STRING /\ r["Title"] # ""
    /\ r["Score"] \in Nat
    /\ r["Rating_Users"] \in Nat
    /\ \A f \in TextFields : r[f] \in STRING /\ r[f] \notin {"", "<tag>"}
    /\ Len(r["Genres"]) >= 1
    /\ \A k \in StatusKeys : r[k] \in Nat
    /\ r["Season_Number"] \in Nat

C7_NoBackToBackRequests ==
    \A i \in 1..(Len(log) - 1) : IsRequest(log[i]) => ~IsRequest(log[i + 1])

\* C7 amended: every detail request is directly followed by the entry sleep,
\* every listing request is preceded by the page sleep (or is the first
\* event), and the only request directly following a request is the first
\* detail request of a page, right after that page's listing request.
C7_DelayAfterDetailAndPage ==
    /\ \A i \in 1..Len(log) :
           log[i].kind = "detail"
           => (i < Len(log) /\ log[i + 1].kind = "sleep_entry")
    /\ \A i \in 1..Len(log) :
           log[i].kind = "listing"
           => (i = 1 \/ log[i - 1].kind = "sleep_page")
    /\ \A i \in 1..(Len(log) - 1) :
           (IsRequest(log[i]) /\ IsRequest(log[i + 1]))
           => (log[i].kind = "listing" /\ log[i].ok /\ log[i + 1].kind = "detail")

\* a page whose two detail requests (one failed) are each followed by a sleep
C7_Witness ==
    /\ Len(log) >= 6
    /\ log[1].kind = "listing" /\ log[2].kind = "detail" /\ ~log[2].ok
    /\ log[3].kind = "sleep_entry" /\ log[4].kind = "detail"
    /\ log[5].kind = "sleep_entry" /\ log[6].kind = "sleep_page"

(***************************************************************************)
(* Normalizer: clean_anime_data                                            *)
(***************************************************************************)
\* A cell of the raw DataFrame: a number, a string, or missing (NaN)
Num(v) == [kind |-> "num", val |-> v, text |-> <<>>]
Str(t) == [kind |-> "str", val |-> 0, text |-> t]
NaN == [kind |-> "nan", val |-> 0, text |-> <<>>]

\* the columns clean_anime_data reads; the other columns pass through
RawRow(title, score, users, episodes, type, w, c, o, d, p) ==
    [Title |-> title, Score |-> score, Rating_Users |-> users,
     Episodes |-> episodes, Type |-> type, Watching |-> w, Completed |-> c,
     On_Hold |-> o, Dropped |-> d, Plan_to_Watch |-> p]

\* Raw rows: viewer-status counts are the non-negative integers the
\* Collector writes, or missing, or text
RawRows ==
    { RawRow("A", Num(850), Num(12), Str(<<"2", "8">>), Str(<<"TV">>),
             w, c, Num(0), d, Num(0)) :
          w \in {Num(0), Num(2), NaN},
          c \in {Num(0), Num(1), Num(3), NaN, Str(<<"-">>)},
          d \in {Num(0), Num(1)} }
    \cup
    { RawRow("B", sc, Str(<<"1", "2", ",", "3">>), Str(<<"U", "n", "k">>), NaN,
             Num(1), Num(2), Num(0), Num(0), Num(4)) :
          sc \in {Num(900), Num(850), Str(<<"9", ".", "1">>),
                  Str(<<"N", "/", "A">>), NaN} }

\* pd.to_numeric(errors='coerce') on one cell, integers
ToNumeric(c) ==
    IF c.kind = "num" THEN Num(c.val)
    ELSE IF c.kind = "str" /\ ParseInt(c.text) # -1 THEN Num(ParseInt(c.text))
    ELSE NaN

\* pd.to_numeric(errors='coerce') on one Score cell, in hundredths
ToNumericScore(c) ==
    IF c.kind = "num" THEN Num(c.val)
    ELSE IF c.kind = "str" /\ ParseFloat(c.text) # -1
         THEN Num(ParseFloat(c.text))
    ELSE NaN

\* df['Rating_Users'].dtype == 'object'
IsObjectColumn(d, col) == \E i \in 1..Len(d) : d[i][col].kind = "str"

\* Series.str.replace(',', '') on one cell: a non-string becomes NaN
StrReplaceCommas(c) == IF c.kind = "str" THEN Str(StripCommas(c.text)) ELSE NaN

CleanRatingUsers(d, i) ==
    IF IsObjectColumn(d, "Rating_Users")
    THEN ToNumeric(StrReplaceCommas(d[i]["Rating_Users"]))
    ELSE ToNumeric(d[i]["Rating_Users"])

\* replace('Unknown', nan) then to_numeric: either way text is missing
CleanEpisodes(c) == ToNumeric(c)

\* fillna('Other')
CleanType(c) == IF c.kind = "nan" THEN Str(<<"Other">>) ELSE c

\* pd.to_numeric(df[col], errors='coerce').fillna(0)
CleanStatus(c) == IF ToNumeric(c).kind = "nan" THEN Num(0) ELSE ToNumeric(c)

\* sum(axis=1) skips NaN (skipna is the default)
CellOrZero(c) == IF c.kind = "num" THEN c.val ELSE 0

\* df[status_cols].sum(axis=1)
TotalWatchers(r) ==
    CellOrZero(r["Watching"]) + CellOrZero(r["Completed"])
    + CellOrZero(r["On_Hold"]) + CellOrZero(r["Dropped"])
    + CellOrZero(r["Plan_to_Watch"])

\* round half to even of n / d, for n >= 0 and d > 0
RoundHalfEven(n, d) ==
    LET q == n \div d
        r == n % d
    IN  IF 2 * r > d THEN q + 1
        ELSE IF 2 * r < d THEN q
        ELSE IF q % 2 = 0 THEN q ELSE q + 1

\* a bug: the trailing fillna(0) left out
CompletionRateNoFill(completed, total) ==
    IF completed.kind = "nan" THEN NaN
    ELSE IF total = 0
         THEN (IF completed.val = 0 THEN NaN
               ELSE [kind |-> "inf", val |-> 0, text |-> <<>>])
    ELSE Num(RoundHalfEven(completed.val * 10000, total))

\* (Completed / Total_Watchers * 100).round(2).fillna(0), in hundredths of a
\* percent: x / 0 is inf for x > 0 and NaN for x = 0, NaN / y is NaN, and
\* fillna replaces NaN only
CompletionRate(completed, total) ==
    IF completed.kind = "nan" THEN Num(0)
    ELSE IF total = 0
         THEN (IF completed.val = 0 THEN Num(0)
               ELSE [kind |-> "inf", val |-> 0, text |-> <<>>])
    ELSE Num(RoundHalfEven(completed.val * 10000, total))

\* the row after the coercions and the two derived columns
CleanRow(d, i) ==
    LET st == [k \in StatusKeys |-> CleanStatus(d[i][k])]
        total == TotalWatchers(st)
    IN  [Title |-> d[i]["Title"],
         Score |-> ToNumericScore(d[i]["Score"]),
         Rating_Users |-> CleanRatingUsers(d, i),
         Episodes |-> CleanEpisodes(d[i]["Episodes"]),
         Type |-> CleanType(d[i]["Type"]),
         Watching |-> st["Watching"],
         Completed |-> st["Completed"],
         On_Hold |-> st["On_Hold"],
         Dropped |-> st["Dropped"],
         Plan_to_Watch |-> st["Plan_to_Watch"],
         Total_Watchers |-> total,
         Completion_Rate |-> CompletionRate(st["Completed"], total)]

Coerced(d) == [i \in 1..Len(d) |-> CleanRow(d, i)]

Permutations1(n) ==
    {f \in [1..n -> 1..n] : \A i, j \in 1..n : i # j => f[i] # f[j]}

\* a bug: ascending order
IsSortIndexerAscending(ix, rows) ==
    /\ \A i, j \in 1..Len(rows) :
           (i < j /\ rows[ix[i]]["Score"].kind = "num"
                  /\ rows[ix[j]]["Score"].kind = "num")
           => rows[ix[i]]["Score"].val <= rows[ix[j]]["Score"].val
    /\ \A i, j \in 1..Len(rows) :
           (rows[ix[i]]["Score"].kind = "nan"
            /\ rows[ix[j]]["Score"].kind = "num") => j < i
    /\ \A i, j \in 1..Len(rows) :
           (i < j /\ rows[ix[i]]["Score"].kind = "nan"
                  /\ rows[ix[j]]["Score"].kind = "nan") => ix[i] < ix[j]

\* sort_values('Score', ascending=False): kind='quicksort' and
\* na_position='last' are the defaults.  The numeric scores come out in
\* descending order, equal scores in an order the sort does not fix
\* (quicksort is not stable), the NaN rows after them in input order.
IsSortIndexer(ix, rows) ==
    /\ \A i, j \in 1..Len(rows) :
           (i < j /\ rows[ix[i]]["Score"].kind = "num"
                  /\ rows[ix[j]]["Score"].kind = "num")
           => rows[ix[i]]["Score"].val >= rows[ix[j]]["Score"].val
    /\ \A i, j \in 1..Len(rows) :
           (rows[ix[i]]["Score"].kind = "nan"
            /\ rows[ix[j]]["Score"].kind = "num") => j < i
    /\ \A i, j \in 1..Len(rows) :
           (i < j /\ rows[ix[i]]["Score"].kind = "nan"
                  /\ rows[ix[j]]["Score"].kind = "nan") => ix[i] < ix[j]

CollectorIdle ==
    /\ pc = "idle" /\ offsetIdx = 1 /\ entries = <<>> /\ entryIdx = 1
    /\ anime_list = <<>> /\ all_anime = <<>> /\ csv = <<>>
    /\ csvWritten = FALSE /\ raised = "none" /\ log = <<>> /\ seen = <<>>
    /\ fetched = <<>>

InitClean ==
    /\ df \in SeqsUpTo(RawRows, MaxRows)
    /\ cleaned = <<>>
    /\ indexer = <<>>
    /\ cpc = "call"
    /\ CollectorIdle
    /\ ReporterIdle

\* clean_anime_data(df): the coercions, the derived columns, the sort and
\* reset_index
CleanAnimeData ==
    /\ cpc = "call"
    /\ \E ix \in Permutations1(Len(df)) :
           /\ IsSortIndexer(ix, Coerced(df))
           /\ indexer' = ix
           /\ cleaned' = [i \in 1..Len(df) |-> Coerced(df)[ix[i]]]
    /\ cpc' = "done"
    /\ UNCHANGED df
    /\ UNCHANGED <<collectorVars, reportVars>>

NextClean == CleanAnimeData

SpecClean == InitClean /\ [][NextClean]_vars

IsPermutationOfInput ==
    /\ Len(cleaned) = Len(df)
    /\ indexer \in Permutations1(Len(df))
    /\ \A i \in 1..Len(cleaned) : cleaned[i] = Coerced(df)[indexer[i]]
DescendingScores ==
    \A i \in 1..(Len(cleaned) - 1) :
        (cleaned[i]["Score"].kind = "num" /\ cleaned[i + 1]["Score"].kind = "num")
        => cleaned[i]["Score"].val >= cleaned[i + 1]["Score"].val
MissingScoresLast ==
    \A i, j \in 1..Len(cleaned) :
        (cleaned[i]["Score"].kind = "nan" /\ cleaned[j]["Score"].kind = "num")
        => j < i
EqualScoresKeepInputOrder ==
    \A i, j \in 1..Len(cleaned) :
        (i < j /\ cleaned[i]["Score"] = cleaned[j]["Score"])
        => indexer[i] < indexer[j]

\* C10 as stated: a permutation in descending Score order, the missing
\* scores at one end, and rows of equal Score in their input order.
C10_StableDescendingSort ==
    cpc = "done" =>
        /\ IsPermutationOfInput
        /\ DescendingScores
        /\ MissingScoresLast
        /\ EqualScoresKeepInputOrder

\* C10 amended: a permutation in descending Score order with the rows of
\* missing Score after all the others, in their input order; nothing is
\* said of the order of rows with equal numeric Score.
C10_DescendingSortMissingLast ==
    cpc = "done" =>
        /\ IsPermutationOfInput
        /\ DescendingScores
        /\ MissingScoresLast
        /\ \A i, j \in 1..Len(cleaned) :
               (i < j /\ cleaned[i]["Score"].kind = "nan"
                      /\ cleaned[j]["Score"].kind = "nan")
               => indexer[i] < indexer[j]

\* the input's first row has no Score and comes out last, after a row that
\* came second in the input
C10_Witness ==
    /\ cpc = "done" /\ Len(cleaned) = 2
    /\ indexer = <<2, 1>>
    /\ cleaned[1]["Score"].kind = "num"
    /\ cleaned[2]["Score"].kind = "nan"
    /\ df[1]["Score"].kind = "str"

(***************************************************************************)
(* Reporter: analyze_visualize.main                                        *)
(***************************************************************************)
Charts == <<"top_10_anime.png", "score_vs_episodes.png",
            "genre_distribution.png", "watching_status.png">>

\* the status columns of a cleaned row; main's control flow reads no other
ReportRows ==
    { [k \in StatusKeys |->
          CASE k = "Watching" -> w
            [] k = "Completed" -> c
            [] k = "Dropped" -> d
            [] OTHER -> 0] : w \in {0, 2}, c \in {0, 5}, d \in {0, 1} }

RECURSIVE SumRows(_, _)
SumRows(d, k) == IF Len(d) = 0 THEN 0 ELSE d[1][k] + SumRows(Tail(d), k)

\* a bug: the plot is never skipped
NeverSkipped(d) == FALSE

\* plot_watching_status: status_sums.sum() == 0
StatusAllZero(d) ==
    SumRows(d, "Watching") + SumRows(d, "Completed") + SumRows(d, "On_Hold")
    + SumRows(d, "Dropped") + SumRows(d, "Plan_to_Watch") = 0

InitReport ==
    /\ rdf \in SeqsUpTo(ReportRows, MaxReportRows)
    /\ rpc = 1
    /\ files = {}
    /\ ran = {}
    /\ rraised = "none"
    /\ CollectorIdle
    /\ NormalizerIdle

\* plot_top_anime returns after savefig
PlotTopAnime ==
    /\ rpc = 1
    /\ files' = files \cup {Charts[1]}
    /\ ran' = ran \cup {Charts[1]}
    /\ rpc' = 2
    /\ UNCHANGED <<rdf, rraised>>
    /\ UNCHANGED <<collectorVars, cleanVars>>

\* plot_top_anime raises (plotting or savefig): main's except logs and
\* re-raises, the calls after it are not made
PlotTopAnimeRaises ==
    /\ rpc = 1
    /\ ran' = ran \cup {Charts[1]}
    /\ rraised' = Charts[1]
    /\ rpc' = 0
    /\ UNCHANGED <<rdf, files>>
    /\ UNCHANGED <<collectorVars, cleanVars>>

\* plot_score_episodes returns after savefig
PlotScoreEpisodes ==
    /\ rpc = 2
    /\ files' = files \cup {Charts[2]}
    /\ ran' = ran \cup {Charts[2]}
    /\ rpc' = 3
    /\ UNCHANGED <<rdf, rraised>>
    /\ UNCHANGED <<collectorVars, cleanVars>>

\* plot_score_episodes raises (plotting or savefig): main's except logs and
\* re-raises, the calls after it are not made
PlotScoreEpisodesRaises ==
    /\ rpc = 2
    /\ ran' = ran \cup {Charts[2]}
    /\ rraised' = Charts[2]
    /\ rpc' = 0
    /\ UNCHANGED <<rdf, files>>
    /\ UNCHANGED <<collectorVars, cleanVars>>

\* plot_genres_distribution returns after savefig
PlotGenresDistribution ==
    /\ rpc = 3
    /\ files' = files \cup {Charts[3]}
    /\ ran' = ran \cup {Charts[3]}
    /\ rpc' = 4
    /\ UNCHANGED <<rdf, rraised>>
    /\ UNCHANGED <<collectorVars, cleanVars>>

\* plot_genres_distribution raises (plotting or savefig): main's except logs and
\* re-raises, the calls after it are not made
PlotGenresDistributionRaises ==
    /\ rpc = 3
    /\ ran' = ran \cup {Charts[3]}
    /\ rraised' = Charts[3]
    /\ rpc' = 0
    /\ UNCHANGED <<rdf, files>>
    /\ UNCHANGED <<collectorVars, cleanVars>>

\* plot_watching_status, some count non-zero, returns after savefig
PlotWatchingStatus ==
    /\ rpc = 4
    /\ ~StatusAllZero(rdf)
    /\ files' = files \cup {Charts[4]}
    /\ ran' = ran \cup {Charts[4]}
    /\ rpc' = 5
    /\ UNCHANGED <<rdf, rraised>>
    /\ UNCHANGED <<collectorVars, cleanVars>>

\* plot_watching_status, some count non-zero, raises (plotting or savefig): main's except logs and
\* re-raises, the calls after it are not made
PlotWatchingStatusRaises ==
    /\ rpc = 4
    /\ ~StatusAllZero(rdf)
    /\ ran' = ran \cup {Charts[4]}
    /\ rraised' = Charts[4]
    /\ rpc' = 0
    /\ UNCHANGED <<rdf, files>>
    /\ UNCHANGED <<collectorVars, cleanVars>>

\* plot_watching_status returns early: no figure, no file
PlotWatchingStatusSkipped ==
    /\ rpc = 4
    /\ StatusAllZero(rdf)
    /\ ran' = ran \cup {Charts[4]}
    /\ rpc' = 5
    /\ UNCHANGED <<rdf, files, rraised>>
    /\ UNCHANGED <<collectorVars, cleanVars>>

NextReport ==
    \/ PlotTopAnime
    \/ PlotTopAnimeRaises
    \/ PlotScoreEpisodes
    \/ PlotScoreEpisodesRaises
    \/ PlotGenresDistribution
    \/ PlotGenresDistributionRaises
    \/ PlotWatchingStatus
    \/ PlotWatchingStatusRaises
    \/ PlotWatchingStatusSkipped

SpecReport == InitReport /\ [][NextReport]_vars

(***************************************************************************)
(* Reporter: claims                                                        *)
(***************************************************************************)
ReportEnded == rpc \in {0, 5}
ChartSet == {Charts[n] : n \in 1..4}
ChartsBefore(c) ==
    {Charts[m] : m \in {k \in 1..4 : \E n \in (k + 1)..4 : Charts[n] = c}}
EveryStatusCellZero ==
    \A i \in 1..Len(rdf) : \A k \in StatusKeys : rdf[i][k] = 0

\* C8 as stated: when main has ended, every chart that did not itself fail
\* and was not skipped has its file.
C8_ChartsIndependent ==
    ReportEnded =>
        \A c \in ChartSet :
            (c # rraised /\ ~(c = Charts[4] /\ EveryStatusCellZero))
            => c \in files

\* C8 amended: a skipped watching-status chart costs no other chart its file
\* (all status columns zero and nothing raising gives exactly the three
\* other files), but a chart operation that raises ends main: the files are
\* those of the operations before it, and no operation after it is called.
C8_SkipToleratedFailureAborts ==
    /\ (rpc = 5 /\ EveryStatusCellZero)
           => (files = {Charts[1], Charts[2], Charts[3]} /\ ran = ChartSet)
    /\ (rpc = 5 /\ ~EveryStatusCellZero) => files = ChartSet
    /\ rpc = 0 =>
           /\ rraised \in ChartSet
           /\ files = ChartsBefore(rraised)
           /\ ran = ChartsBefore(rraised) \cup {rraised}

\* two rows whose status columns are all zero: three files, the
\* watching-status operation was called and wrote nothing
C8_Witness ==
    /\ rpc = 5 /\ Len(rdf) = 2 /\ EveryStatusCellZero
    /\ Cardinality(files) = 3 /\ Charts[4] \in ran /\ Charts[4] \notin files

====
